---- MODULE Spec2Model ----
(***************************************************************************)
(* Model of diffmah/individual_sfr_history.py: the in-situ star-formation  *)
(* history of one halo (predict_in_situ_history) and of a collection of    *)
(* halos (predict_in_situ_history_collection), with the kernels            *)
(* _calculate_cumulative_in_situ_mass and _compute_fstar.                  *)
(*                                                                         *)
(* Numbers.  Cosmic times are whole Gyr.  A base-10 logarithm is a         *)
(* fixed-point integer in units of 0.01 dex (Log10, Pow10 below convert    *)
(* with two-digit mantissas).  A linear star-formation rate or mass sum is *)
(* a fixed-point integer in units of 0.001.  An Fstar value is a           *)
(* fixed-point integer in units of 0.0001.                                 *)
(***************************************************************************)
EXTENDS Integers, Sequences, FiniteSets, TLC

VARIABLES fn, args, pc, err, ihalo, ft, log_mah, log_smh, log_ssfrh, fstar_coll, result, n_assembly, n_sfr, tau_calls

vars == <<fn, args, pc, err, ihalo, ft, log_mah, log_smh, log_ssfrh, fstar_coll, result, n_assembly, n_sfr, tau_calls>>

----------------------------------------------------------------------------
(* Bounds of the model *)

\* largest number of halos (rows of mah_params, of sfr_params) in a call
MaxHalos == 2

\* largest number of points of a time grid handed to a kernel directly
MaxGrid == 3

----------------------------------------------------------------------------
(* Arithmetic *)

RECURSIVE Pow(_, _)
Pow(b, n) == IF n <= 0 THEN 1 ELSE b * Pow(b, n - 1)

\* floor(100 * log10(m / 10)) for the two-digit mantissas m = 10 .. 99
LogTable ==
  << 0, 4, 7, 11, 14, 17, 20, 23, 25, 27, 30, 32, 34, 36, 38, 39, 41, 43,
     44, 46, 47, 49, 50, 51, 53, 54, 55, 56, 57, 59, 60, 61, 62, 63, 64,
     65, 66, 67, 68, 69, 69, 70, 71, 72, 73, 74, 74, 75, 76, 77, 77, 78,
     79, 79, 80, 81, 81, 82, 83, 83, 84, 85, 85, 86, 86, 87, 88, 88, 89,
     89, 90, 90, 91, 91, 92, 92, 93, 93, 94, 94, 95, 95, 96, 96, 97, 97,
     98, 98, 99, 99 >>

\* np.log10 of the positive integer n, in 0.01 dex
RECURSIVE Log10(_)
Log10(n) ==
  IF n < 10 THEN LogTable[10 * n - 9]
  ELSE IF n < 100 THEN 100 + LogTable[n - 9]
  ELSE 100 + Log10(n \div 10)

\* the two-digit mantissa of 10 ** (r / 100), 0 <= r < 100
MantTable == [r \in 0..99 |-> CHOOSE m \in 10..99 : LogTable[m - 9] <= r /\ (m = 99 \/ LogTable[m - 8] > r)]

Mant(r) == MantTable[r]

\* 10 ** x for x in 0.01 dex, as the decimal float m/10 * 10^e
Pow10(x) == [m |-> Mant(x % 100), e |-> x \div 100]

\* a decimal float as a fixed-point integer in units of 0.001
ToFix(f) == IF f.e >= -2 THEN f.m * Pow(10, f.e + 2) ELSE f.m \div Pow(10, -(f.e + 2))

\* np.log10 of a fixed-point integer in units of 0.001
Log10Fix(v) == Log10(v) - 300

\* a / b for two decimal floats, in units of 0.0001
FloatDiv(a, b) ==
  IF a.e <= b.e THEN (a.m * 10000) \div (b.m * Pow(10, b.e - a.e))
  ELSE (a.m * Pow(10, a.e - b.e) * 10000) \div b.m

Last(s) == s[Len(s)]

\* np.interp(x, xp, fp) at one point x: linear between the nodes, the end
\* values outside [xp[0], xp[-1]]
InterpAt(x, xp, fp) ==
  IF x <= xp[1] THEN fp[1]
  ELSE IF x >= Last(xp) THEN Last(fp)
  ELSE LET j == CHOOSE k \in 1..(Len(xp) - 1) : xp[k] <= x /\ x < xp[k + 1]
       IN fp[j] + ((fp[j + 1] - fp[j]) * (x - xp[j])) \div (xp[j + 1] - xp[j])

\* np.interp(x, xp, fp) for an array x
Interp(x, xp, fp) == [i \in 1..Len(x) |-> InterpAt(x[i], xp, fp)]

\* np.log10 of an array of whole times
Log10Arr(t) == [i \in 1..Len(t) |-> Log10(t[i])]

\* jax_np.cumsum
RECURSIVE CumSumAt(_, _)
CumSumAt(s, i) == IF i = 0 THEN 0 ELSE CumSumAt(s, i - 1) + s[i]

----------------------------------------------------------------------------
(* Module constants *)

\* jax_np.log10(FB) for FB = 0.158, in 0.01 dex
LOG10_FB == -80

\* list(DEFAULT_MAH_PARAMS.keys())
mah_names == <<"dmhdt_x0", "dmhdt_k", "dmhdt_early_index", "dmhdt_late_index">>

\* list(DEFAULT_SFRH_PARAMS.keys()): DEFAULT_SFR_MS_PARAMS, then QUENCHING_DICT
sfr_names == <<"lge0", "k_early", "lgtc", "lgec", "k_trans", "a_late", "log_qtime", "qspeed">>

----------------------------------------------------------------------------
(* Collaborators in halo_assembly, main_sequence_sfr_eff, quenching_times *)

\* the grid spacing array of a time grid: the local time deltas
_get_dt_array(t) == [i \in 1..Len(t) |-> IF i = 1 THEN t[2] - t[1] ELSE t[i] - t[i - 1]]

\* some entry of cosmic_time lies within 50 Myr of tmp (whole Gyr: equals tmp)
HasEntryNear(cosmic_time, tmp) == \E i \in 1..Len(cosmic_time) : cosmic_time[i] = tmp

\* _process_halo_mah_args: logt, dtarr and the index of the entry at tmp
_process_halo_mah_args(logmp, cosmic_time, tmp) ==
  IF ~HasEntryNear(cosmic_time, tmp)
  THEN [ok |-> FALSE, err |-> "cosmic_time must have an entry within 50Myr of tmp"]
  ELSE [ok |-> TRUE, logmp |-> logmp, logt |-> Log10Arr(cosmic_time), dtarr |-> _get_dt_array(cosmic_time),
        indx_tmp |-> CHOOSE i \in 1..Len(cosmic_time) : cosmic_time[i] = tmp]

\* accretion-history kernel: <<log halo mass, log dMhalo/dt>> on the grid,
\* a power law in time through (tmp, logmp) whose index rolls at dmhdt_x0
_individual_halo_assembly_jax_kern(logt, dtarr, logmp, dmhdt_x0, dmhdt_k, dmhdt_early_index, dmhdt_late_index, indx_tmp) ==
  LET index(i) == IF logt[i] < dmhdt_x0 THEN dmhdt_early_index ELSE dmhdt_late_index
      lgm == [i \in 1..Len(logt) |-> logmp + index(i) * (logt[i] - logt[indx_tmp])]
  IN << lgm, [i \in 1..Len(logt) |-> lgm[i] - logt[i] - 900] >>

\* individual_halo_assembly_history(cosmic_time, logmp, tmp=..., **mah)
individual_halo_assembly_history(cosmic_time, logmp, tmp, dmhdt_x0, dmhdt_k, dmhdt_early_index, dmhdt_late_index) ==
  LET a == _process_halo_mah_args(logmp, cosmic_time, tmp)
  IN IF ~a.ok THEN a
     ELSE LET h == _individual_halo_assembly_jax_kern(a.logt, a.dtarr, a.logmp, dmhdt_x0, dmhdt_k, dmhdt_early_index, dmhdt_late_index, a.indx_tmp)
          IN [ok |-> TRUE, log_mah |-> h[1], log_dmhdt |-> h[2]]

\* efficiency kernel: log SFR efficiency, lge0 early, lgec at lgtc, then a
\* power law of index a_late
_log_sfr_efficiency_ms_jax_kern(logt, lge0, k_early, lgtc, lgec, k_trans, a_late) ==
  [i \in 1..Len(logt) |-> IF logt[i] < lgtc THEN lge0 ELSE lgec + a_late * (logt[i] - lgtc)]

\* quenching kernel: 0 before 10^log_qtime, decreasing after it
_jax_gradual_quenching(logt, log_qtime, qspeed) ==
  [i \in 1..Len(logt) |-> IF logt[i] <= log_qtime THEN 0 ELSE -(qspeed * (logt[i] - log_qtime))]

----------------------------------------------------------------------------
(* Kernels of individual_sfr_history.py *)

_individual_log_sfr_history_jax_kern(logt, dtarr, logmp, dmhdt_x0, dmhdt_k, dmhdt_early_index, dmhdt_late_index, lge0, k_early, lgtc, lgec, k_trans, a_late, log_qtime, qspeed, indx_tmp) ==
  LET log_dmhdt == _individual_halo_assembly_jax_kern(logt, dtarr, logmp, dmhdt_x0, dmhdt_k, dmhdt_early_index, dmhdt_late_index, indx_tmp)[2]
      log_dmbdt == [i \in 1..Len(logt) |-> LOG10_FB + log_dmhdt[i]]
      log_sfr_eff == _log_sfr_efficiency_ms_jax_kern(logt, lge0, k_early, lgtc, lgec, k_trans, a_late)
      log_sfr_ms == [i \in 1..Len(logt) |-> log_dmbdt[i] + log_sfr_eff[i]]
      q == _jax_gradual_quenching(logt, log_qtime, qspeed)
  IN [i \in 1..Len(logt) |-> log_sfr_ms[i] + q[i]]

\* log10(cumsum(10 ** log_sfr) * dtarr) + 9.0
_calculate_cumulative_in_situ_mass(log_sfr, dtarr) ==
  LET sfr == [j \in 1..Len(log_sfr) |-> ToFix(Pow10(log_sfr[j]))]
  IN [i \in 1..Len(log_sfr) |-> Log10Fix(CumSumAt(sfr, i) * dtarr[i]) + 900]

_individual_log_mstar_history_jax_kern(logt, dtarr, logmp, dmhdt_x0, dmhdt_k, dmhdt_early_index, dmhdt_late_index, lge0, k_early, lgtc, lgec, k_trans, a_late, log_qtime, qspeed, indx_tmp) ==
  LET log_sfr == _individual_log_sfr_history_jax_kern(logt, dtarr, logmp, dmhdt_x0, dmhdt_k, dmhdt_early_index, dmhdt_late_index, lge0, k_early, lgtc, lgec, k_trans, a_late, log_qtime, qspeed, indx_tmp)
      log_smh_ == _calculate_cumulative_in_situ_mass(log_sfr, dtarr)
  IN << log_sfr, log_smh_ >>

individual_sfr_history(cosmic_time, logmp, dmhdt_x0, dmhdt_k, dmhdt_early_index, dmhdt_late_index, lge0, k_early, lgtc, lgec, k_trans, a_late, log_qtime, qspeed, tmp) ==
  LET a == _process_halo_mah_args(logmp, cosmic_time, tmp)
  IN IF ~a.ok THEN a
     ELSE LET r == _individual_log_mstar_history_jax_kern(a.logt, a.dtarr, a.logmp, dmhdt_x0, dmhdt_k, dmhdt_early_index, dmhdt_late_index, lge0, k_early, lgtc, lgec, k_trans, a_late, log_qtime, qspeed, a.indx_tmp)
          IN [ok |-> TRUE, log_sfr |-> r[1], log_sm |-> r[2]]

\* _compute_fstar with a lag below the grid replaced by the time itself
_compute_fstar_lag_reset(tarr, in_situ_log_sm, tau_s) ==
  LET n == Len(tarr)
      min_t_lag == tarr[1]
      t_lag == [i \in 1..n |-> IF tarr[i] - tau_s < min_t_lag THEN tarr[i] ELSE tarr[i] - tau_s]
      log_sm_at_t_lag == Interp(Log10Arr(t_lag), Log10Arr(tarr), in_situ_log_sm)
      sm_at_t == [i \in 1..n |-> Pow10(in_situ_log_sm[i])]
      sm_at_t_lag == [i \in 1..n |-> Pow10(log_sm_at_t_lag[i])]
      fstar == [i \in 1..n |-> 10000 - FloatDiv(sm_at_t_lag[i], sm_at_t[i])]
  IN [i \in 1..n |-> IF fstar[i] < 0 THEN 0 ELSE fstar[i]]

\* Fstar on the grid tarr for one timescale tau_s; assumes log_sm monotonic
_compute_fstar(tarr, in_situ_log_sm, tau_s) ==
  LET n == Len(tarr)
      min_t_lag == tarr[1]
      t_lag == [i \in 1..n |-> IF tarr[i] - tau_s < min_t_lag THEN min_t_lag ELSE tarr[i] - tau_s]
      log_sm_at_t_lag == Interp(Log10Arr(t_lag), Log10Arr(tarr), in_situ_log_sm)
      sm_at_t == [i \in 1..n |-> Pow10(in_situ_log_sm[i])]
      sm_at_t_lag == [i \in 1..n |-> Pow10(log_sm_at_t_lag[i])]
      fstar == [i \in 1..n |-> 10000 - FloatDiv(sm_at_t_lag[i], sm_at_t[i])]
  IN [i \in 1..n |-> IF fstar[i] < 0 THEN 0 ELSE fstar[i]]

----------------------------------------------------------------------------
(* predict_in_situ_history *)

\* fstar_timescales is a float or a sequence: [scalar |-> TRUE, v |-> <<tau>>]
\* is the float tau, [scalar |-> FALSE, v |-> taus] the sequence taus.
\* len(fstar_timescales) raises TypeError for a float
HasLen(fstar_timescales) == ~fstar_timescales.scalar

\* the float itself
FloatOf(fstar_timescales) == fstar_timescales.v[1]

\* NormaliseTimescales asserting fstar_timescales >= 0
NormaliseTimescalesNonNegative(fstar_timescales) ==
  IF HasLen(fstar_timescales) THEN [ok |-> TRUE, v |-> fstar_timescales.v]
  ELSE IF FloatOf(fstar_timescales) >= 0 THEN [ok |-> TRUE, v |-> <<FloatOf(fstar_timescales)>>]
  ELSE [ok |-> FALSE, v |-> <<>>]

\* try: len(fstar_timescales); except TypeError: assert fstar_timescales > 0,
\* then fstar_timescales = (fstar_timescales,)
NormaliseTimescales(fstar_timescales) ==
  IF HasLen(fstar_timescales) THEN [ok |-> TRUE, v |-> fstar_timescales.v]
  ELSE IF FloatOf(fstar_timescales) > 0 THEN [ok |-> TRUE, v |-> <<FloatOf(fstar_timescales)>>]
  ELSE [ok |-> FALSE, v |-> <<>>]

\* ClipSsfr with the comparison turned round
ClipSsfrAbove(log_ssfr, log_ssfr_clip) ==
  [i \in 1..Len(log_ssfr) |-> IF log_ssfr[i] > log_ssfr_clip THEN log_ssfr_clip ELSE log_ssfr[i]]

\* np.where(log_ssfr < log_ssfr_clip, log_ssfr_clip, log_ssfr)
ClipSsfr(log_ssfr, log_ssfr_clip) ==
  [i \in 1..Len(log_ssfr) |-> IF log_ssfr[i] < log_ssfr_clip THEN log_ssfr_clip ELSE log_ssfr[i]]

\* the fstar_collector of the loop over the timescales
FstarCollector(cosmic_time, log_sm, timescales) ==
  [k \in 1..Len(timescales) |-> _compute_fstar(cosmic_time, log_sm, timescales[k])]

\* predict_in_situ_history with the timescales checked before the kernels run
predict_in_situ_history_checked_first(cosmic_time, logmp, fstar_timescales, kw, tmp, log_ssfr_clip) ==
  LET nt == NormaliseTimescales(fstar_timescales)
      h == individual_halo_assembly_history(cosmic_time, logmp, tmp, kw.dmhdt_x0, kw.dmhdt_k, kw.dmhdt_early_index, kw.dmhdt_late_index)
  IN IF ~nt.ok
     THEN [ok |-> FALSE, err |-> "Input fstar_timescales must be strictly positive", out |-> <<>>,
           n_assembly |-> 0, n_sfr |-> 0, taus |-> <<>>]
     ELSE IF ~h.ok
     THEN [ok |-> FALSE, err |-> h.err, out |-> <<>>, n_assembly |-> 1, n_sfr |-> 0, taus |-> <<>>]
     ELSE
     LET s == individual_sfr_history(cosmic_time, logmp, kw.dmhdt_x0, kw.dmhdt_k, kw.dmhdt_early_index, kw.dmhdt_late_index, kw.lge0, kw.k_early, kw.lgtc, kw.lgec, kw.k_trans, kw.a_late, kw.log_qtime, kw.qspeed, tmp)
         log_ssfr0 == [i \in 1..Len(cosmic_time) |-> s.log_sfr[i] - s.log_sm[i]]
         log_ssfr == IF ~log_ssfr_clip.none THEN ClipSsfr(log_ssfr0, log_ssfr_clip.v) ELSE log_ssfr0
         fstar_collector == FstarCollector(cosmic_time, s.log_sm, nt.v)
     IN [ok |-> TRUE, err |-> "",
         out |-> IF Len(fstar_collector) > 0 THEN <<h.log_mah, s.log_sm, log_ssfr, fstar_collector>>
                 ELSE <<h.log_mah, s.log_sm, log_ssfr>>,
         n_assembly |-> 1, n_sfr |-> 1, taus |-> nt.v]

\* One call.  kw holds the MAH and SFR keyword arguments, log_ssfr_clip is
\* [none |-> TRUE] or [none |-> FALSE, v |-> floor].  The value records how
\* the call ended (ok, err), what it returned (out) and what it invoked on
\* the way: the accretion-history collaborator (n_assembly), the SFR kernel
\* (n_sfr) and _compute_fstar (taus, the tau_s of each invocation).
predict_in_situ_history(cosmic_time, logmp, fstar_timescales, kw, tmp, log_ssfr_clip) ==
  LET h == individual_halo_assembly_history(cosmic_time, logmp, tmp, kw.dmhdt_x0, kw.dmhdt_k, kw.dmhdt_early_index, kw.dmhdt_late_index)
  IN IF ~h.ok
     THEN [ok |-> FALSE, err |-> h.err, out |-> <<>>, n_assembly |-> 1, n_sfr |-> 0, taus |-> <<>>]
     ELSE
     LET s == individual_sfr_history(cosmic_time, logmp, kw.dmhdt_x0, kw.dmhdt_k, kw.dmhdt_early_index, kw.dmhdt_late_index, kw.lge0, kw.k_early, kw.lgtc, kw.lgec, kw.k_trans, kw.a_late, kw.log_qtime, kw.qspeed, tmp)
         log_ssfr0 == [i \in 1..Len(cosmic_time) |-> s.log_sfr[i] - s.log_sm[i]]
         log_ssfr == IF ~log_ssfr_clip.none THEN ClipSsfr(log_ssfr0, log_ssfr_clip.v) ELSE log_ssfr0
         nt == NormaliseTimescales(fstar_timescales)
     IN IF ~nt.ok
        THEN [ok |-> FALSE, err |-> "Input fstar_timescales must be strictly positive", out |-> <<>>,
              n_assembly |-> 1, n_sfr |-> 1, taus |-> <<>>]
        ELSE
        LET timescales == nt.v
            fstar_collector == FstarCollector(cosmic_time, s.log_sm, timescales)
        IN [ok |-> TRUE, err |-> "",
            out |-> IF Len(fstar_collector) > 0 THEN <<h.log_mah, s.log_sm, log_ssfr, fstar_collector>>
                    ELSE <<h.log_mah, s.log_sm, log_ssfr>>,
            n_assembly |-> 1, n_sfr |-> 1, taus |-> timescales]

----------------------------------------------------------------------------
(* predict_in_situ_history_collection *)

\* np.zeros((nhalos, nt))
Zeros(nhalos, nt) == [i \in 1..nhalos |-> [j \in 1..nt |-> 0]]

\* OrderedDict(zip(names, vals)): zip stops at the shorter of the two
ZipDict(names, vals) ==
  LET n == IF Len(names) < Len(vals) THEN Len(names) ELSE Len(vals)
  IN [key \in {names[i] : i \in 1..n} |-> vals[CHOOSE i \in 1..n : names[i] = key]]

\* HaloKwargs reading the first halo's rows for every halo
HaloKwargsFirstRow(mah_params, sfr_params, i) ==
  ZipDict(mah_names, SubSeq(mah_params[1], 3, Len(mah_params[1]))) @@ ZipDict(sfr_names, sfr_params[1])

\* the keyword arguments of halo ihalo: tmp and logmp are columns 0 and 1 of
\* its mah_params row, the others are named in order
HaloKwargs(mah_params, sfr_params, i) ==
  ZipDict(mah_names, SubSeq(mah_params[i], 3, Len(mah_params[i]))) @@ ZipDict(sfr_names, sfr_params[i])

\* np.interp(np.log10(cosmic_time), np.log10(t_table), y)
Resample(cosmic_time, t_table, y) == Interp(Log10Arr(cosmic_time), Log10Arr(t_table), y)

\* ShapesMatch asserting nhalos <= _nhalos
ShapesMatchAtMost(mah_params, sfr_params) == Len(mah_params) <= Len(sfr_params)

\* assert nhalos == _nhalos
ShapesMatch(mah_params, sfr_params) == Len(mah_params) = Len(sfr_params)

\* lines 70-89: the shapes, the output arrays, the timescales
CollStart ==
  /\ fn = "collection" /\ pc = "start"
  /\ LET nhalos == Len(args.mah_params)
         nt == Len(args.cosmic_time)
         norm == NormaliseTimescales(args.fstar_timescales)
     IN IF ~ShapesMatch(args.mah_params, args.sfr_params)
        THEN /\ pc' = "error"
             /\ err' = "mismatched shapes for mah_params and sfr_params"
             /\ UNCHANGED <<ihalo, ft, log_mah, log_smh, log_ssfrh, fstar_coll>>
        ELSE IF ~norm.ok
        THEN /\ pc' = "error"
             /\ err' = "Input fstar_timescales must be strictly positive"
             /\ log_mah' = Zeros(nhalos, nt)
             /\ log_smh' = Zeros(nhalos, nt)
             /\ log_ssfrh' = Zeros(nhalos, nt)
             /\ UNCHANGED <<ihalo, ft, fstar_coll>>
        ELSE /\ pc' = "loop"
             /\ ft' = [scalar |-> FALSE, v |-> norm.v]
             /\ log_mah' = Zeros(nhalos, nt)
             /\ log_smh' = Zeros(nhalos, nt)
             /\ log_ssfrh' = Zeros(nhalos, nt)
             /\ fstar_coll' = [k \in 1..Len(ft'.v) |-> Zeros(nhalos, nt)]
             /\ ihalo' = 1
             /\ UNCHANGED err
  /\ UNCHANGED <<fn, args, result, n_assembly, n_sfr, tau_calls>>

\* lines 90-118: one pass of the loop over the halos
CollHalo ==
  /\ fn = "collection" /\ pc = "loop" /\ ihalo <= Len(args.mah_params)
  /\ LET tmp == args.mah_params[ihalo][1]
         logmp == args.mah_params[ihalo][2]
         kw == HaloKwargs(args.mah_params, args.sfr_params, ihalo)
     IN \E _x_table \in {predict_in_situ_history(args.t_table, logmp, ft, kw, tmp, args.log_ssfr_clip)} :
        /\ n_assembly' = n_assembly + _x_table.n_assembly
        /\ n_sfr' = n_sfr + _x_table.n_sfr
        /\ tau_calls' = tau_calls \o _x_table.taus
        /\ IF ~_x_table.ok
           THEN /\ pc' = "error"
                /\ err' = _x_table.err
                /\ UNCHANGED <<ihalo, log_mah, log_smh, log_ssfrh, fstar_coll>>
           ELSE /\ log_mah' = [log_mah EXCEPT ![ihalo] = Resample(args.cosmic_time, args.t_table, _x_table.out[1])]
                /\ log_smh' = [log_smh EXCEPT ![ihalo] = Resample(args.cosmic_time, args.t_table, _x_table.out[2])]
                /\ log_ssfrh' = [log_ssfrh EXCEPT ![ihalo] = Resample(args.cosmic_time, args.t_table, _x_table.out[3])]
                /\ fstar_coll' = [it \in 1..Len(ft.v) |->
                                    [fstar_coll[it] EXCEPT ![ihalo] = Resample(args.cosmic_time, args.t_table, _x_table.out[4][it])]]
                /\ ihalo' = ihalo + 1
                /\ UNCHANGED <<pc, err>>
  /\ UNCHANGED <<fn, args, ft, result>>

\* CollReturn without the Fstar arrays
CollReturnThree ==
  /\ fn = "collection" /\ pc = "loop" /\ ihalo > Len(args.mah_params)
  /\ result' = <<log_mah, log_smh, log_ssfrh>>
  /\ pc' = "done"
  /\ UNCHANGED <<fn, args, err, ihalo, ft, log_mah, log_smh, log_ssfrh, fstar_coll, n_assembly, n_sfr, tau_calls>>

\* line 120: return [log_mah, log_smh, log_ssfrh, *fstar_coll]
CollReturn ==
  /\ fn = "collection" /\ pc = "loop" /\ ihalo > Len(args.mah_params)
  /\ result' = <<log_mah, log_smh, log_ssfrh>> \o fstar_coll
  /\ pc' = "done"
  /\ UNCHANGED <<fn, args, err, ihalo, ft, log_mah, log_smh, log_ssfrh, fstar_coll, n_assembly, n_sfr, tau_calls>>

----------------------------------------------------------------------------
(* Direct calls *)

\* a call of predict_in_situ_history
SingleCall ==
  /\ fn = "single" /\ pc = "start"
  /\ \E r \in {predict_in_situ_history(args.cosmic_time, args.logmp, args.fstar_timescales, args.kw, args.tmp, args.log_ssfr_clip)} :
        /\ n_assembly' = r.n_assembly
        /\ n_sfr' = r.n_sfr
        /\ tau_calls' = r.taus
        /\ pc' = IF r.ok THEN "done" ELSE "error"
        /\ err' = r.err
        /\ result' = r.out
  /\ UNCHANGED <<fn, args, ihalo, ft, log_mah, log_smh, log_ssfrh, fstar_coll>>

\* a call of _calculate_cumulative_in_situ_mass with the spacing of a grid
CumsumCall ==
  /\ fn = "cumsum" /\ pc = "start"
  /\ result' = _calculate_cumulative_in_situ_mass(args.log_sfr, args.dtarr)
  /\ pc' = "done"
  /\ UNCHANGED <<fn, args, err, ihalo, ft, log_mah, log_smh, log_ssfrh, fstar_coll, n_assembly, n_sfr, tau_calls>>

\* a call of _compute_fstar
FstarCall ==
  /\ fn = "fstar" /\ pc = "start"
  /\ result' = _compute_fstar(args.tarr, args.log_sm, args.tau_s)
  /\ pc' = "done"
  /\ UNCHANGED <<fn, args, err, ihalo, ft, log_mah, log_smh, log_ssfrh, fstar_coll, n_assembly, n_sfr, tau_calls>>

----------------------------------------------------------------------------
(* The calls the model makes *)

SeqsUpTo(S, n) == UNION {[1..k -> S] : k \in 0..n}

IsIncreasing(t) == \A i \in 1..(Len(t) - 1) : t[i] < t[i + 1]

IsNonDecreasing(y) == \A i \in 1..(Len(y) - 1) : y[i] <= y[i + 1]

\* the dense internal grids t_table (Gyr), uniform and not
TTables == {<<2, 4, 6, 8>>, <<2, 5, 6, 8>>}

\* the output times: the dense grid itself, or times inside and outside it
CosmicTimes(t_table) == {t_table, <<1, 3, 7, 9>>}

\* rows of mah_params: tmp, logmp, dmhdt_x0, dmhdt_k, dmhdt_early_index, dmhdt_late_index
MahRows == {<<8, 1200, 47, 1, 2, 1>>, <<5, 1150, 60, 1, 3, 1>>}

\* rows of sfr_params: lge0, k_early, lgtc, lgec, k_trans, a_late, log_qtime, qspeed
SfrRows == {<<-150, 1, 47, -100, 1, -1, 90, 5>>, <<-120, 1, 60, -90, 1, -2, 60, 2>>}

Scalar(x) == [scalar |-> TRUE, v |-> <<x>>]

Sequence(x) == [scalar |-> FALSE, v |-> x]

FstarInputs == {Scalar(-1), Scalar(0), Scalar(2), Sequence(<<>>), Sequence(<<1, 3>>), Sequence(<<2, -1>>)}

ClipInputs == {[none |-> TRUE], [none |-> FALSE, v |-> -1000], [none |-> FALSE, v |-> -950]}

\* the pairs <<t_table, cosmic_time>>
GridPairs == UNION {{<<tt, ct>> : ct \in CosmicTimes(tt)} : tt \in TTables}

CollectionArgs ==
  {[mah_params |-> m, sfr_params |-> s, cosmic_time |-> g[2], t_table |-> g[1], fstar_timescales |-> f, log_ssfr_clip |-> c] :
     m \in SeqsUpTo(MahRows, MaxHalos), s \in SeqsUpTo(SfrRows, MaxHalos), g \in GridPairs, f \in FstarInputs, c \in ClipInputs}

SingleArgs ==
  {[cosmic_time |-> t, logmp |-> m[2], fstar_timescales |-> f, kw |-> HaloKwargs(<<m>>, <<s>>, 1), tmp |-> m[1], log_ssfr_clip |-> c] :
     t \in TTables, m \in MahRows, s \in SfrRows, f \in FstarInputs, c \in ClipInputs}

\* the values of the kernels' direct inputs
TimeVals == {1, 2, 3, 5, 8}

LogSfrVals == {-50, 0, 40, 100}

LogSmVals == {900, 950, 1000, 1100}

TauVals == {1, 2, 4, 9}

Grids == {t \in UNION {[1..k -> TimeVals] : k \in 2..MaxGrid} : IsIncreasing(t)}

CumsumArgs ==
  {[tarr |-> t, dtarr |-> _get_dt_array(t), log_sfr |-> y] : t \in Grids, y \in UNION {[1..k -> LogSfrVals] : k \in 2..MaxGrid}}

FstarArgs ==
  {[tarr |-> t, log_sm |-> y, tau_s |-> tau] : t \in Grids, y \in UNION {[1..k -> LogSmVals] : k \in 2..MaxGrid}, tau \in TauVals}

Init ==
  /\ \/ fn = "collection" /\ args \in CollectionArgs
     \/ fn = "single" /\ args \in SingleArgs
     \/ fn = "cumsum" /\ args \in {a \in CumsumArgs : Len(a.tarr) = Len(a.log_sfr)}
     \/ fn = "fstar" /\ args \in {a \in FstarArgs : Len(a.tarr) = Len(a.log_sm) /\ IsNonDecreasing(a.log_sm)}
  /\ pc = "start"
  /\ err = ""
  /\ ihalo = 0
  /\ ft = Sequence(<<>>)
  /\ log_mah = <<>>
  /\ log_smh = <<>>
  /\ log_ssfrh = <<>>
  /\ fstar_coll = <<>>
  /\ result = <<>>
  /\ n_assembly = 0
  /\ n_sfr = 0
  /\ tau_calls = <<>>

Next == CollStart \/ CollHalo \/ CollReturn \/ SingleCall \/ CumsumCall \/ FstarCall

Spec == Init /\ [][Next]_vars

----------------------------------------------------------------------------
(* Properties *)

ErrShapes == "mismatched shapes for mah_params and sfr_params"

ErrTimescale == "Input fstar_timescales must be strictly positive"

IsOrchestrator == fn \in {"single", "collection"}

ScalarRequested == IsOrchestrator /\ ~HasLen(args.fstar_timescales)

\* C1: a collection call whose mah_params and sfr_params differ in their row
\* counts ends in the shape error, returns no result and has invoked neither
\* the single-halo orchestrator's collaborators nor any kernel.
C1_MismatchRejected ==
  (fn = "collection" /\ Len(args.mah_params) # Len(args.sfr_params) /\ pc # "start")
    => /\ pc = "error" /\ err = ErrShapes
       /\ result = <<>>
       /\ n_assembly = 0 /\ n_sfr = 0 /\ tau_calls = <<>>

C1_Witness ==
  fn = "collection" /\ Len(args.mah_params) < Len(args.sfr_params) /\ pc = "error" /\ err = ErrShapes

\* C2: with a float tau as fstar_timescales, a call of either orchestrator
\* ends in an error with no result when tau <= 0; when tau > 0 it does not
\* fail on the timescale check and goes on with the one-element sequence
\* (tau,): one Fstar array, computed for tau.
C2_ScalarTimescale ==
  (ScalarRequested /\ pc # "start")
    => LET tau == FloatOf(args.fstar_timescales)
       IN IF tau <= 0
          THEN pc = "error" /\ result = <<>>
          ELSE /\ err # ErrTimescale
               /\ (fn = "collection" /\ pc \in {"loop", "done"})
                    => ft = Sequence(<<tau>>) /\ Len(fstar_coll) = 1
               /\ (fn = "collection" /\ pc = "done") => Len(result) = 4
               /\ (fn = "single" /\ pc = "done")
                    => /\ tau_calls = <<tau>>
                       /\ Len(result) = 4
                       /\ result[4] = << _compute_fstar(args.cosmic_time, result[2], tau) >>

C2_Witness ==
  /\ fn = "collection" /\ ~HasLen(args.fstar_timescales) /\ FloatOf(args.fstar_timescales) = 0
  /\ Len(args.mah_params) = Len(args.sfr_params) /\ Len(args.mah_params) > 0
  /\ pc = "error" /\ err = ErrTimescale

\* C3 as stated: whenever a call is rejected for a precondition (row counts,
\* a non-positive timescale), neither the accretion-history collaborator nor
\* the SFR kernel has been invoked.
C3_RejectedBeforeNumericWork ==
  (IsOrchestrator /\ pc = "error" /\ err \in {ErrShapes, ErrTimescale})
    => n_assembly = 0 /\ n_sfr = 0

\* C3 amended: a collection call rejected for a precondition has invoked
\* neither collaborator; a predict_in_situ_history call rejected for a
\* non-positive float timescale has invoked each of the two once, and
\* _compute_fstar not at all.
C3_RejectionOrder ==
  (IsOrchestrator /\ pc = "error" /\ err \in {ErrShapes, ErrTimescale})
    => /\ tau_calls = <<>>
       /\ result = <<>>
       /\ fn = "collection" => n_assembly = 0 /\ n_sfr = 0
       /\ fn = "single" => n_assembly = 1 /\ n_sfr = 1

C3_Witness ==
  fn = "single" /\ pc = "error" /\ err = ErrTimescale /\ n_assembly = 1 /\ n_sfr = 1

\* C4: _compute_fstar is never invoked with tau_s <= 0, whether the
\* timescales come as a float or as a sequence.
C4_FstarTimescalesPositive ==
  IsOrchestrator => \A k \in 1..Len(tau_calls) : tau_calls[k] > 0

\* C5: the log stellar-mass curve that _calculate_cumulative_in_situ_mass
\* returns for the spacing of a strictly increasing grid is non-decreasing
\* along the grid, and so is the log-SM output of predict_in_situ_history.
C5_LogSmNonDecreasing ==
  /\ (fn = "cumsum" /\ pc = "done") => IsNonDecreasing(result)
  /\ (fn = "single" /\ pc = "done") => IsNonDecreasing(result[2])

\* the prefix sum of the per-step contributions SFR(t_j) * dt_j
RECURSIVE WeightedSumAt(_, _, _)
WeightedSumAt(sfr, dtarr, i) == IF i = 0 THEN 0 ELSE WeightedSumAt(sfr, dtarr, i - 1) + sfr[i] * dtarr[i]

\* C10: at every grid index i the stellar mass is the prefix sum of
\* SFR(t_j) * dt_j over j <= i, in log10 and shifted by 9.0.
C10_PrefixSumOfContributions ==
  (fn = "cumsum" /\ pc = "done")
    => LET sfr == [j \in 1..Len(args.log_sfr) |-> ToFix(Pow10(args.log_sfr[j]))]
       IN \A i \in 1..Len(result) : result[i] = Log10Fix(WeightedSumAt(sfr, args.dtarr, i)) + 900

\* the number of requested Fstar timescales, a float counting as one
NRequested == IF HasLen(args.fstar_timescales) THEN Len(args.fstar_timescales.v) ELSE 1

\* the requested timescales in request order
Requested == IF HasLen(args.fstar_timescales) THEN args.fstar_timescales.v ELSE <<FloatOf(args.fstar_timescales)>>

HasShape(a, nrows, ncols) == Len(a) = nrows /\ \A i \in 1..nrows : Len(a[i]) = ncols

ClipRequested == IsOrchestrator /\ ~args.log_ssfr_clip.none

Max(a, b) == IF a < b THEN b ELSE a

\* C6: with a floor log_ssfr_clip, every log-sSFR value returned is at least
\* the floor: predict_in_situ_history returns max(log_sfr - log_sm, floor) at
\* every grid point, and every row the collection has resampled onto
\* cosmic_time, inside or outside the range of t_table, stays at or above it.
C6_SsfrAtLeastClip ==
  /\ (ClipRequested /\ fn = "single" /\ pc = "done")
       => LET s == individual_sfr_history(args.cosmic_time, args.logmp, args.kw.dmhdt_x0, args.kw.dmhdt_k, args.kw.dmhdt_early_index, args.kw.dmhdt_late_index, args.kw.lge0, args.kw.k_early, args.kw.lgtc, args.kw.lgec, args.kw.k_trans, args.kw.a_late, args.kw.log_qtime, args.kw.qspeed, args.tmp)
          IN \A i \in 1..Len(args.cosmic_time) :
               /\ result[3][i] >= args.log_ssfr_clip.v
               /\ result[3][i] = Max(s.log_sfr[i] - result[2][i], args.log_ssfr_clip.v)
  /\ (ClipRequested /\ fn = "collection" /\ pc \in {"loop", "done"})
       => \A i \in 1..(ihalo - 1) : \A j \in 1..Len(args.cosmic_time) : log_ssfrh[i][j] >= args.log_ssfr_clip.v
  /\ (ClipRequested /\ fn = "collection" /\ pc = "done")
       => \A i \in 1..Len(result[3]) : \A j \in 1..Len(result[3][i]) : result[3][i][j] >= args.log_ssfr_clip.v

C6_Witness ==
  /\ ClipRequested /\ fn = "collection" /\ pc = "done"
  /\ args.cosmic_time = <<1, 3, 7, 9>>
  /\ \E i \in 1..Len(result[3]) :
       /\ result[3][i][4] = args.log_ssfr_clip.v
       /\ result[3][i][1] > args.log_ssfr_clip.v

\* C7: for a non-decreasing log stellar-mass curve and tau > 0 every Fstar
\* value lies in [0, 1); where the window reaches back to the first grid time
\* (tau >= t - t_min) it is 1 - SM(t_min)/SM(t), and it is 0 at the first
\* grid point.
C7_FstarRange ==
  (fn = "fstar" /\ pc = "done")
    => /\ \A i \in 1..Len(result) : 0 <= result[i] /\ result[i] < 10000
       /\ \A i \in 1..Len(result) :
            args.tau_s >= args.tarr[i] - args.tarr[1]
              => result[i] = 10000 - FloatDiv(Pow10(args.log_sm[1]), Pow10(args.log_sm[i]))
       /\ result[1] = 0

C7_Witness ==
  /\ fn = "fstar" /\ pc = "done" /\ Len(args.tarr) = 3
  /\ args.tau_s >= args.tarr[2] - args.tarr[1] /\ args.tau_s < args.tarr[3] - args.tarr[1]
  /\ result[2] > 0 /\ result[3] > 0

RowKwargs(m, s) ==
  [dmhdt_x0 |-> m[3], dmhdt_k |-> m[4], dmhdt_early_index |-> m[5], dmhdt_late_index |-> m[6],
   lge0 |-> s[1], k_early |-> s[2], lgtc |-> s[3], lgec |-> s[4], k_trans |-> s[5], a_late |-> s[6],
   log_qtime |-> s[7], qspeed |-> s[8]]

\* what predict_in_situ_history returns on t_table for halo i's rows alone
AloneOnTable(i) ==
  predict_in_situ_history(args.t_table, args.mah_params[i][2], args.fstar_timescales,
                          RowKwargs(args.mah_params[i], args.sfr_params[i]), args.mah_params[i][1], args.log_ssfr_clip).out

\* row i of the returned arrays is that result resampled onto cosmic_time
RowIsResampled(i) ==
  LET x == AloneOnTable(i)
      onto(y) == Interp(Log10Arr(args.cosmic_time), Log10Arr(args.t_table), y)
  IN /\ result[1][i] = onto(x[1])
     /\ result[2][i] = onto(x[2])
     /\ result[3][i] = onto(x[3])
     /\ \A k \in 1..NRequested : result[3 + k][i] = onto(x[4][k])

\* row i of the returned arrays is that result itself
RowIsExact(i) ==
  LET x == AloneOnTable(i)
  IN /\ result[1][i] = x[1]
     /\ result[2][i] = x[2]
     /\ result[3][i] = x[3]
     /\ \A k \in 1..NRequested : result[3 + k][i] = x[4][k]

====
